---- MODULE Spec2Model ----
(***************************************************************************)
(* Model of the two packages of the repository:                            *)
(*   - the Blender addon studio_tools (operators publish_asset,            *)
(*     validate_scene, open_in_explorer, copy_path);                       *)
(*   - the library studio (get_project_root, get_user).                    *)
(* Python strings are TLA+ strings; Python lists and tuples are sequences. *)
(* Every operator call records what it did in the observation variables    *)
(* (op, result, reports, spawned), which describe the latest call only.    *)
(***************************************************************************)
EXTENDS Integers, Sequences, FiniteSets, TLC

VARIABLES
    objects,    \* bpy.data.objects: sequence of [name, type, scale]
    filepath,   \* bpy.data.filepath ("" while the file is not saved)
    clipboard,  \* context.window_manager.clipboard
    platform,   \* sys.platform
    errors,     \* the list `errors` at the end of the latest call (<<>> unless validate_scene)
    warnings,   \* the list `warnings` at the end of the latest call (<<>> unless validate_scene)
    runs,       \* validate_scene runs since the latest other call
    op,         \* the latest call: an operator's bl_idname or a function name
    result,     \* what the latest call returned
    reports,    \* self.report(level, message) calls of the latest call
    spawned,    \* subprocess.run calls of the latest call: <<argv, returncode>>
    environ,    \* os.environ restricted to the variables the library reads
    cwd         \* the process's current working directory

vars == <<objects, filepath, clipboard, platform, errors, warnings, runs, op,
          result, reports, spawned, environ, cwd>>

libVars == <<environ, cwd>>

-----------------------------------------------------------------------------
(* Bounds and input sets *)

MaxObjs == 2

MaxRuns == 2

Names == {"Cube", "Sphere.001", "MyCube", "Hero"}

Types == {"MESH", "EMPTY"}

Scales == {<<1, 1, 1>>, <<2, 1, 1>>, <<1, 1, 2>>}

Platforms == {"darwin", "win32", "linux"}

ReturnCodes == {0, 1}

SceneObjects == [name : Names, type : Types, scale : Scales]

\* Blender keeps the names of bpy.data.objects unique.
Scenes ==
    { s \in UNION { [1..n -> SceneObjects] : n \in 0..MaxObjs } :
        \A i, j \in 1..Len(s) : i # j => s[i].name # s[j].name }

\* The saved paths the host can hold on a platform (absolute, as Blender keeps them).
SavedPaths(plat) ==
    IF plat = "win32"
    THEN {"C:\\proj\\a.blend", "C:\\a.blend"}
    ELSE {"/proj/shot/a.blend", "/a.blend"}

-----------------------------------------------------------------------------
(* Python string helpers *)

\* a prefix test that finds the prefix anywhere in s (`prefix in s`)
startswith_anywhere(s, prefix) ==
    \E i \in 1..(Len(s) - Len(prefix) + 1) : SubSeq(s, i, i + Len(prefix) - 1) = prefix

\* str.startswith
startswith(s, prefix) ==
    /\ Len(s) >= Len(prefix)
    /\ SubSeq(s, 1, Len(prefix)) = prefix

\* s[i] for a 1-based index, "" out of range
CharAt(s, i) == IF i >= 1 /\ i <= Len(s) THEN SubSeq(s, i, i) ELSE ""

\* str.rstrip(chars): drop trailing characters that are in the set seps
RECURSIVE rstrip(_, _)
rstrip(s, seps) ==
    IF Len(s) > 0 /\ CharAt(s, Len(s)) \in seps
    THEN rstrip(SubSeq(s, 1, Len(s) - 1), seps)
    ELSE s

\* the largest i with s[i] in seps, 0 when there is none (rfind + 1)
RECURSIVE LastSep(_, _, _)
LastSep(s, seps, i) ==
    IF i = 0 \/ CharAt(s, i) \in seps THEN i ELSE LastSep(s, seps, i - 1)

\* posixpath.dirname
posix_dirname(p) ==
    LET i == LastSep(p, {"/"}, Len(p))
        head == SubSeq(p, 1, i)
    IN  IF head # "" /\ rstrip(head, {"/"}) # "" THEN rstrip(head, {"/"}) ELSE head

\* ntpath.dirname for drive-letter paths: the drive is kept, the rest is split
\* at the last separator and stripped of trailing separators unless it is all
\* separators
nt_dirname(p) ==
    LET hasDrive == CharAt(p, 2) = ":"
        drive == IF hasDrive THEN SubSeq(p, 1, 2) ELSE ""
        rest == IF hasDrive THEN SubSeq(p, 3, Len(p)) ELSE p
        seps == {"\\", "/"}
        i == LastSep(rest, seps, Len(rest))
        head == SubSeq(rest, 1, i)
    IN  drive \o (IF rstrip(head, seps) # "" THEN rstrip(head, seps) ELSE head)

\* os.path.dirname: ntpath on win32, posixpath elsewhere
dirname(plat, p) == IF plat = "win32" THEN nt_dirname(p) ELSE posix_dirname(p)

-----------------------------------------------------------------------------
(* validate_scene *)

\* first loop of execute: one message per object with a default name
RECURSIVE check_names(_, _)
check_names(objs, ws) ==
    IF objs = <<>> THEN ws
    ELSE LET obj == Head(objs)
         IN  check_names(Tail(objs),
                 IF startswith(obj.name, "Cube") \/ startswith(obj.name, "Sphere")
                 THEN Append(ws, "Object '" \o obj.name \o "' has default name")
                 ELSE ws)

\* the second loop without its test of obj.type
RECURSIVE check_transforms_any_type(_, _)
check_transforms_any_type(objs, ws) ==
    IF objs = <<>> THEN ws
    ELSE LET obj == Head(objs)
         IN  check_transforms_any_type(Tail(objs),
                 IF obj.scale # <<1, 1, 1>>
                 THEN Append(ws, "Object '" \o obj.name \o "' has unapplied scale")
                 ELSE ws)

\* second loop of execute: one message per mesh whose scale is not (1, 1, 1)
RECURSIVE check_transforms(_, _)
check_transforms(objs, ws) ==
    IF objs = <<>> THEN ws
    ELSE LET obj == Head(objs)
         IN  check_transforms(Tail(objs),
                 IF obj.type = "MESH" /\ obj.scale # <<1, 1, 1>>
                 THEN Append(ws, "Object '" \o obj.name \o "' has unapplied scale")
                 ELSE ws)

\* the report calls of a loop `for m in msgs: self.report({level}, m)`
report_each(level, msgs) == [i \in 1..Len(msgs) |-> <<level, msgs[i]>>]

\* the final reports with the success message given after the warnings too
warning_reports_always_info(ws) ==
    [i \in 1..Len(ws) |-> <<"WARNING", ws[i]>>]
        \o << <<"INFO", "Scene validation passed!">> >>

\* the reports of the `if warnings: ... else: ...` at the end of execute
warning_reports(ws) ==
    IF ws # <<>>
    THEN report_each("WARNING", ws)
    ELSE << <<"INFO", "Scene validation passed!">> >>

\* a warnings list kept from the run before (a class-level list)
stale_warnings == warnings

\* the lists execute starts from
fresh_errors == <<>>

fresh_warnings == <<>>

STUDIO_OT_validate_scene_execute ==
    /\ runs < MaxRuns
    /\ LET es == fresh_errors
           ws == check_transforms(objects, check_names(objects, fresh_warnings))
       IN  /\ errors' = es
           /\ warnings' = ws
           /\ IF es # <<>>
              THEN /\ reports' = report_each("ERROR", es)
                   /\ result' = "CANCELLED"
              ELSE /\ reports' = warning_reports(ws)
                   /\ result' = "FINISHED"
    /\ op' = "studio.validate_scene"
    /\ runs' = runs + 1
    /\ spawned' = <<>>
    /\ UNCHANGED <<objects, filepath, clipboard, platform, libVars>>

-----------------------------------------------------------------------------
(* publish_asset *)

STUDIO_OT_publish_asset_execute ==
    /\ op' = "studio.publish_asset"
    /\ reports' = << <<"INFO", "Publish functionality coming soon!">> >>
    /\ result' = "FINISHED"
    /\ spawned' = <<>>
    /\ runs' = 0
    /\ errors' = <<>>
    /\ warnings' = <<>>
    /\ UNCHANGED <<objects, filepath, clipboard, platform, libVars>>

-----------------------------------------------------------------------------
(* open_in_explorer *)

\* the platform test with the Windows platform misspelt ('windows')
explorer_command_misspelt(plat) ==
    IF plat = "darwin" THEN "open"
    ELSE IF plat = "windows" THEN "explorer"
    ELSE "xdg-open"

\* the command chosen by the if/elif/else on sys.platform
explorer_command(plat) ==
    IF plat = "darwin" THEN "open"
    ELSE IF plat = "win32" THEN "explorer"
    ELSE "xdg-open"

\* the argument list handed to subprocess.run
explorer_argv(plat, path) == <<explorer_command(plat), dirname(plat, path)>>

STUDIO_OT_open_in_explorer_execute ==
    /\ op' = "studio.open_in_explorer"
    /\ IF filepath = ""
       THEN /\ reports' = << <<"WARNING", "File not saved yet">> >>
            /\ result' = "CANCELLED"
            /\ spawned' = <<>>
       ELSE /\ \E rc \in ReturnCodes :
                   spawned' = << <<explorer_argv(platform, filepath), rc>> >>
            /\ reports' = <<>>
            /\ result' = "FINISHED"
    /\ runs' = 0
    /\ errors' = <<>>
    /\ warnings' = <<>>
    /\ UNCHANGED <<objects, filepath, clipboard, platform, libVars>>

-----------------------------------------------------------------------------
(* copy_path *)

\* the directory copied in place of the path
copied_directory(path) == posix_dirname(path)

\* the value assigned to context.window_manager.clipboard
copied_value(path) == path

\* copy_path with the clipboard written before the test of filepath
copy_path_write_first ==
    /\ op' = "studio.copy_path"
    /\ clipboard' = filepath
    /\ IF filepath = ""
       THEN /\ reports' = << <<"WARNING", "File not saved yet">> >>
            /\ result' = "CANCELLED"
       ELSE /\ reports' = << <<"INFO", "Copied: " \o filepath>> >>
            /\ result' = "FINISHED"
    /\ spawned' = <<>>
    /\ runs' = 0
    /\ errors' = <<>>
    /\ warnings' = <<>>
    /\ UNCHANGED <<objects, filepath, platform, libVars>>

STUDIO_OT_copy_path_execute ==
    /\ op' = "studio.copy_path"
    /\ IF filepath = ""
       THEN /\ reports' = << <<"WARNING", "File not saved yet">> >>
            /\ result' = "CANCELLED"
            /\ clipboard' = clipboard
       ELSE /\ clipboard' = copied_value(filepath)
            /\ reports' = << <<"INFO", "Copied: " \o filepath>> >>
            /\ result' = "FINISHED"
    /\ spawned' = <<>>
    /\ runs' = 0
    /\ errors' = <<>>
    /\ warnings' = <<>>
    /\ UNCHANGED <<objects, filepath, platform, libVars>>

-----------------------------------------------------------------------------
(* the host saves the file under a path, or starts a new unsaved file *)

HostSetFilepath ==
    /\ \E p \in SavedPaths(platform) \cup {""} :
           /\ p # filepath
           /\ filepath' = p
    /\ op' = "host"
    /\ result' = "NONE"
    /\ reports' = <<>>
    /\ spawned' = <<>>
    /\ runs' = 0
    /\ errors' = <<>>
    /\ warnings' = <<>>
    /\ UNCHANGED <<objects, clipboard, platform, libVars>>

-----------------------------------------------------------------------------
(* the library studio *)

EnvVars == {"STUDIO_PROJECT_ROOT", "USER", "USERNAME"}

\* the values a variable is given in the environments explored
EnvValues(k) ==
    IF k = "STUDIO_PROJECT_ROOT" THEN {"", "/proj", "/proj/", "shots/./a"}
    ELSE IF k = "USER" THEN {"", "alice"}
    ELSE {"", "bob"}

\* an environment sets any subset of the variables
Environs ==
    { e \in UNION { [D -> UNION { EnvValues(k) : k \in EnvVars }] : D \in SUBSET EnvVars } :
        \A k \in DOMAIN e : e[k] \in EnvValues(k) }

\* os.getcwd() is absolute and normalised
Cwds == {"/", "/home/alice"}

\* os.environ.get(key, default)
environ_get(key, default) == IF key \in DOMAIN environ THEN environ[key] ELSE default

\* str.split("/") from index i on, cur being the component read so far
RECURSIVE split(_, _, _)
split(s, i, cur) ==
    IF i > Len(s) THEN <<cur>>
    ELSE IF CharAt(s, i) = "/" THEN <<cur>> \o split(s, i + 1, "")
    ELSE split(s, i + 1, cur \o CharAt(s, i))

\* "/".join(parts)
RECURSIVE join(_)
join(parts) ==
    IF parts = <<>> THEN ""
    ELSE IF Len(parts) = 1 THEN parts[1]
    ELSE parts[1] \o "/" \o join(Tail(parts))

\* a path component pathlib keeps
KeptPart(x) == x # "" /\ x # "."

\* the text handed back as it is, no Path made of it
Path_verbatim(s) == s

\* str(Path(s)) on a POSIX host: the root is "/" ("//" for exactly two leading
\* slashes), empty and "." components are dropped, the empty path is "."
Path(s) ==
    LET root == IF CharAt(s, 1) # "/" THEN ""
                ELSE IF CharAt(s, 2) # "/" \/ CharAt(s, 3) = "/" THEN "/"
                ELSE "//"
        rel == SubSeq(s, Len(root) + 1, Len(s))
        text == root \o join(SelectSeq(split(rel, 1, ""), KeptPart))
    IN  IF text = "" THEN "." ELSE text

\* Path.cwd()
Path_cwd == Path(cwd)

\* the test `is not None` in place of the truth test
root_is_not_none == "STUDIO_PROJECT_ROOT" \in DOMAIN environ

\* the walrus test of get_project_root: the variable is set and not empty
root_is_set ==
    /\ "STUDIO_PROJECT_ROOT" \in DOMAIN environ
    /\ environ["STUDIO_PROJECT_ROOT"] # ""

get_project_root ==
    /\ op' = "get_project_root"
    /\ result' = IF root_is_set THEN Path(environ["STUDIO_PROJECT_ROOT"]) ELSE Path_cwd
    /\ UNCHANGED <<objects, filepath, clipboard, platform, errors, warnings, runs,
                   reports, spawned, libVars>>

\* the fallbacks chained with `or`: an empty value falls through
user_value_or_chain ==
    IF environ_get("USER", "") # "" THEN environ["USER"]
    ELSE IF environ_get("USERNAME", "") # "" THEN environ["USERNAME"]
    ELSE "unknown"

\* the value get_user returns
user_value == environ_get("USER", environ_get("USERNAME", "unknown"))

get_user ==
    /\ op' = "get_user"
    /\ result' = user_value
    /\ UNCHANGED <<objects, filepath, clipboard, platform, errors, warnings, runs,
                   reports, spawned, libVars>>

-----------------------------------------------------------------------------

Init ==
    /\ objects \in Scenes
    /\ platform \in Platforms
    /\ filepath = ""
    /\ clipboard = ""
    /\ errors = <<>>
    /\ warnings = <<>>
    /\ runs = 0
    /\ op = "host"
    /\ result = "NONE"
    /\ reports = <<>>
    /\ spawned = <<>>
    /\ environ = <<>>
    /\ cwd = "/"

Next ==
    \/ STUDIO_OT_publish_asset_execute
    \/ STUDIO_OT_validate_scene_execute
    \/ STUDIO_OT_open_in_explorer_execute
    \/ STUDIO_OT_copy_path_execute
    \/ HostSetFilepath

Spec == Init /\ [][Next]_vars

\* the library is called in an environment the process was started with
InitConfig ==
    /\ environ \in Environs
    /\ cwd \in Cwds
    /\ objects = <<>>
    /\ platform = "linux"
    /\ filepath = ""
    /\ clipboard = ""
    /\ errors = <<>>
    /\ warnings = <<>>
    /\ runs = 0
    /\ op = "host"
    /\ result = "NONE"
    /\ reports = <<>>
    /\ spawned = <<>>

NextConfig ==
    \/ get_project_root
    \/ get_user

SpecConfig == InitConfig /\ [][NextConfig]_vars

-----------------------------------------------------------------------------
(* Properties of validate_scene *)

Range(f) == { f[i] : i \in DOMAIN f }

HasDefaultName(obj) ==
    \E k \in 0..Len(obj.name) : SubSeq(obj.name, 1, k) \in {"Cube", "Sphere"}

HasUnappliedScale(obj) ==
    /\ obj.type = "MESH"
    /\ \E c \in 1..3 : obj.scale[c] # 1

DefaultNameMsg(obj) == "Object '" \o obj.name \o "' has default name"

UnappliedScaleMsg(obj) == "Object '" \o obj.name \o "' has unapplied scale"

EndsWith(s, suffix) ==
    /\ Len(s) >= Len(suffix)
    /\ SubSeq(s, Len(s) - Len(suffix) + 1, Len(s)) = suffix

DefaultNameMsgs ==
    LET sel == SelectSeq(objects, HasDefaultName)
    IN  [i \in 1..Len(sel) |-> DefaultNameMsg(sel[i])]

UnappliedScaleMsgs ==
    LET sel == SelectSeq(objects, HasUnappliedScale)
    IN  [i \in 1..Len(sel) |-> UnappliedScaleMsg(sel[i])]

Validated == op = "studio.validate_scene"

\* C1: after validate_scene, warnings is exactly the default-name messages in
\* object order followed by the unapplied-scale messages of the scaled meshes
\* in object order; an object that is not a mesh has no unapplied-scale
\* message, and no default-name message follows an unapplied-scale message.
C1_WarningsExact ==
    Validated =>
        /\ warnings = DefaultNameMsgs \o UnappliedScaleMsgs
        /\ \A i \in 1..Len(objects) :
               objects[i].type # "MESH" =>
                   UnappliedScaleMsg(objects[i]) \notin Range(warnings)
        /\ \A i, j \in 1..Len(warnings) :
               (/\ EndsWith(warnings[i], "' has unapplied scale")
                /\ EndsWith(warnings[j], "' has default name")) => j < i

C1_Witness ==
    /\ Validated
    /\ Len(objects) >= 2
    /\ \E i, j \in 1..Len(warnings) :
           /\ i < j
           /\ EndsWith(warnings[i], "' has default name")
           /\ EndsWith(warnings[j], "' has unapplied scale")
    /\ \E i \in 1..Len(objects) :
           objects[i].type # "MESH" /\ objects[i].scale = <<2, 1, 1>>

CleanScene ==
    \A i \in 1..Len(objects) :
        /\ ~HasDefaultName(objects[i])
        /\ objects[i].type = "MESH" => objects[i].scale = <<1, 1, 1>>

\* C2: on a scene (the empty one included) where no name starts with "Cube" or
\* "Sphere" and every mesh has scale (1,1,1), validate_scene ends with errors
\* and warnings both empty, whatever the scales of the other objects.
C2_CleanSceneNoWarnings ==
    (Validated /\ CleanScene) => (errors = <<>> /\ warnings = <<>>)

C2_Witness ==
    /\ Validated
    /\ CleanScene
    /\ Len(objects) >= 2
    /\ \E i \in 1..Len(objects) :
           objects[i].type # "MESH" /\ objects[i].scale # <<1, 1, 1>>
    /\ \E i \in 1..Len(objects) : objects[i].type = "MESH"
    /\ warnings = <<>>

\* C3: validate_scene makes one WARNING report per warning, in the order of
\* the warnings list, and no INFO report, when there are warnings; otherwise a
\* single INFO report "Scene validation passed!". It returns FINISHED either
\* way: errors is empty, there is no ERROR report and no CANCELLED.
C3_ReportSequence ==
    Validated =>
        /\ warnings # <<>> =>
               /\ Len(reports) = Len(warnings)
               /\ \A i \in 1..Len(warnings) : reports[i] = <<"WARNING", warnings[i]>>
        /\ warnings = <<>> => reports = << <<"INFO", "Scene validation passed!">> >>
        /\ result = "FINISHED"
        /\ errors = <<>>
        /\ \A i \in 1..Len(reports) : reports[i][1] # "ERROR"

C3_Witness ==
    /\ Validated
    /\ Len(warnings) >= 2
    /\ Len(reports) = Len(warnings)
    /\ result = "FINISHED"

\* C10: a validate_scene call changes nothing but its reports: the scene
\* objects, the saved path, the clipboard stay as they were and no process is
\* spawned; run again on the same scene it gives the same lists, reports and
\* result as the run before.
C10_ValidateFrame ==
    [][ (op' = "studio.validate_scene") =>
            /\ objects' = objects
            /\ filepath' = filepath
            /\ clipboard' = clipboard
            /\ platform' = platform
            /\ spawned' = <<>>
            /\ Validated =>
                   /\ errors' = errors
                   /\ warnings' = warnings
                   /\ reports' = reports
                   /\ result' = result ]_vars

C10_Witness ==
    /\ Validated
    /\ runs = 2
    /\ Len(warnings) >= 2
    /\ filepath # ""
    /\ clipboard # ""

-----------------------------------------------------------------------------
(* Properties of open_in_explorer and copy_path *)

Opened == op = "studio.open_in_explorer"

Copied == op = "studio.copy_path"

NotSavedReport == << <<"WARNING", "File not saved yet">> >>

\* C4: with no saved path, open_in_explorer and copy_path return CANCELLED,
\* make the single WARNING report "File not saved yet", spawn no process and
\* leave the clipboard as it was.
C4_UnsavedCancelled ==
    /\ []( ((Opened \/ Copied) /\ filepath = "") =>
               /\ result = "CANCELLED"
               /\ reports = NotSavedReport
               /\ spawned = <<>> )
    /\ [][ (/\ op' \in {"studio.open_in_explorer", "studio.copy_path"}
            /\ filepath' = "") => clipboard' = clipboard ]_vars

C4_Witness ==
    /\ Copied
    /\ filepath = ""
    /\ clipboard # ""
    /\ result = "CANCELLED"

PathSeps == IF platform = "win32" THEN {"\\", "/"} ELSE {"/"}

\* d is the directory that holds the file p: p is d, separators, and a last
\* component without separator (the root and the drive root keep their separator)
IsContainingDir(d, p) ==
    \E k \in 1..(Len(p) - 1) :
        /\ CharAt(p, k) \in PathSeps
        /\ \A m \in (k + 1)..Len(p) : CharAt(p, m) \notin PathSeps
        /\ d = IF k = 1 \/ CharAt(p, k - 1) = ":"
               THEN SubSeq(p, 1, k)
               ELSE SubSeq(p, 1, k - 1)

ExpectedCommand ==
    CASE platform = "darwin" -> "open"
      [] platform = "win32" -> "explorer"
      [] OTHER -> "xdg-open"

\* C8: with a saved path, open_in_explorer runs exactly one process: `open` on
\* darwin, `explorer` on win32, `xdg-open` elsewhere, with the directory of the
\* saved file as only argument; it returns FINISHED whatever the exit status,
\* reports nothing and leaves the clipboard alone.
C8_OpenInExplorer ==
    /\ []( (Opened /\ filepath # "") =>
               /\ Len(spawned) = 1
               /\ Len(spawned[1][1]) = 2
               /\ spawned[1][1][1] = ExpectedCommand
               /\ IsContainingDir(spawned[1][1][2], filepath)
               /\ result = "FINISHED"
               /\ reports = <<>> )
    /\ [][ (op' = "studio.open_in_explorer") => clipboard' = clipboard ]_vars

C8_Witness ==
    /\ Opened
    /\ platform = "win32"
    /\ filepath = "C:\\proj\\a.blend"
    /\ Len(spawned) = 1
    /\ spawned[1][2] = 1
    /\ result = "FINISHED"
    /\ clipboard # ""

\* C9: with a saved path, copy_path sets the clipboard to that path, makes the
\* single INFO report "Copied: <path>" with the same value, returns FINISHED
\* and spawns no process; the clipboard only ever changes to the saved path of
\* a successful copy_path call.
C9_CopyPath ==
    /\ []( (Copied /\ filepath # "") =>
               /\ clipboard = filepath
               /\ reports = << <<"INFO", "Copied: " \o clipboard>> >>
               /\ result = "FINISHED"
               /\ spawned = <<>> )
    /\ [][ (clipboard' # clipboard) =>
               /\ op' = "studio.copy_path"
               /\ result' = "FINISHED"
               /\ clipboard' = filepath' ]_vars

C9_Witness ==
    /\ Copied
    /\ result = "FINISHED"
    /\ filepath = "/a.blend"
    /\ clipboard = "/a.blend"
    /\ reports = << <<"INFO", "Copied: /a.blend">> >>

-----------------------------------------------------------------------------
(* Properties of the library *)

RootSet == "STUDIO_PROJECT_ROOT" \in DOMAIN environ

GotRoot == op = "get_project_root"

RootValue == environ["STUDIO_PROJECT_ROOT"]

\* the components of a path text that name something
Components(s) == SelectSeq(split(s, 1, ""), KeptPart)

\* a path text pathlib leaves as it is: the root, or components separated by
\* single separators after at most one leading separator, none of them "."
IsNormalPath(s) ==
    \/ s = "/"
    \/ /\ s # ""
       /\ LET body == IF CharAt(s, 1) = "/" THEN SubSeq(s, 2, Len(s)) ELSE s
          IN  \A x \in Range(split(body, 1, "")) : x \notin {"", "."}

C6_EmptyIsUnset ==
    GotRoot =>
        /\ (~RootSet \/ RootValue = "") => result = cwd
        /\ result # cwd =>
               /\ RootSet
               /\ RootValue # ""
               /\ Components(result) = Components(RootValue)

C6_Witness ==
    /\ GotRoot
    /\ RootSet
    /\ RootValue = ""
    /\ cwd = "/home/alice"
    /\ result = "/home/alice"

GotUser == op = "get_user"

\* C7: get_user returns the value of USER when USER is set (USERNAME set or
\* not), else the value of USERNAME when that is set, else "unknown"; nothing
\* else of the environment or of the process decides the result.
C7_UserFallback ==
    GotUser =>
        result = IF "USER" \in DOMAIN environ THEN environ["USER"]
                 ELSE IF "USERNAME" \in DOMAIN environ THEN environ["USERNAME"]
                 ELSE "unknown"

C7_Witness ==
    /\ GotUser
    /\ "USER" \in DOMAIN environ
    /\ "USERNAME" \in DOMAIN environ
    /\ environ["USER"] = ""
    /\ environ["USERNAME"] = "bob"
    /\ result = ""

====
